---- MODULE Spec2Model ----
(***************************************************************************)
(* DemoForums client: startApp (main.tsx), the route table and its loader  *)
(* (router.ts), the Layout auth guard (Layout.tsx), on top of the query    *)
(* cache and the HTTP client's 401 handling (lib/api.ts, documented in     *)
(* README.md).                                                             *)
(***************************************************************************)
EXTENDS Integers, Sequences, FiniteSets, TLC

\* ------------------------------------------------------------------ bounds

\* Longest browser history the model follows (pushes stop there).
MaxHistory == 2

\* How long the clock of the time-based cache runs, in units of 30 seconds.
MaxClock == 12

\* ------------------------------------------------------------ route table

LoginPath == <<"login">>
RootPath == <<>>

\* The URLs a visit can be at, as path segments.
Paths ==
  { LoginPath, RootPath, <<"forums", "new">>, <<"forums", "s">>,
    <<"forums", "s", "new">>, <<"forums", "s", "1">> }

\* The URLs the visitor moves to once the application runs.
NavTargets == {LoginPath, RootPath, <<"forums", "s", "1">>}

\* A route table with /login nested under the "/" route.
RouteBranchesLoginNested ==
  << [pattern |-> <<"login">>, index |-> FALSE, layout |-> TRUE, Component |-> "LoginPage"],
     [pattern |-> <<>>, index |-> TRUE, layout |-> TRUE, Component |-> "ForumListPage"],
     [pattern |-> <<"forums", "new">>, index |-> FALSE, layout |-> TRUE, Component |-> "ForumCreatePage"],
     [pattern |-> <<"forums", ":slug">>, index |-> FALSE, layout |-> TRUE, Component |-> "PostListPage"],
     [pattern |-> <<"forums", ":slug", "new">>, index |-> FALSE, layout |-> TRUE, Component |-> "PostCreatePage"],
     [pattern |-> <<"forums", ":slug", ":postNumber">>, index |-> FALSE, layout |-> TRUE, Component |-> "PostViewPage"],
     [pattern |-> <<>>, index |-> FALSE, layout |-> TRUE, Component |-> "None"] >>

\* createBrowserRouter's branches, in the order flattenRoutes yields them:
\* a route's children first, then the route itself.
RouteBranches ==
  << [pattern |-> <<"login">>, index |-> FALSE, layout |-> FALSE, Component |-> "LoginPage"],
     [pattern |-> <<>>, index |-> TRUE, layout |-> TRUE, Component |-> "ForumListPage"],
     [pattern |-> <<"forums", "new">>, index |-> FALSE, layout |-> TRUE, Component |-> "ForumCreatePage"],
     [pattern |-> <<"forums", ":slug">>, index |-> FALSE, layout |-> TRUE, Component |-> "PostListPage"],
     [pattern |-> <<"forums", ":slug", "new">>, index |-> FALSE, layout |-> TRUE, Component |-> "PostCreatePage"],
     [pattern |-> <<"forums", ":slug", ":postNumber">>, index |-> FALSE, layout |-> TRUE, Component |-> "PostViewPage"],
     [pattern |-> <<>>, index |-> FALSE, layout |-> TRUE, Component |-> "None"] >>

NoMatch == [pattern |-> <<"*">>, index |-> FALSE, layout |-> FALSE, Component |-> "NotFound"]

IsParam(seg) == seg \in {":slug", ":postNumber"}

\* A ranking that prefers dynamic segments to static ones.
RECURSIVE SegmentScoreDynamicFirst(_)
SegmentScoreDynamicFirst(pattern) ==
  IF pattern = <<>> THEN 0
  ELSE (IF IsParam(Head(pattern)) THEN 10 ELSE 3)
       + SegmentScoreDynamicFirst(Tail(pattern))

RECURSIVE SegmentScore(_)
SegmentScore(pattern) ==
  IF pattern = <<>> THEN 0
  ELSE (IF IsParam(Head(pattern)) THEN 3 ELSE 10) + SegmentScore(Tail(pattern))

\* computeScore: the number of "/"-separated pieces, 1 for each empty piece,
\* 10 for a static and 3 for a dynamic segment, 2 more for an index route.
Score(b) ==
  (IF b.pattern = <<>> THEN 2 + 1 + 1
   ELSE (Len(b.pattern) + 1) + 1 + SegmentScore(b.pattern))
  + (IF b.index THEN 2 ELSE 0)

PatternMatches(pattern, path) ==
  /\ Len(pattern) = Len(path)
  /\ \A i \in 1..Len(pattern) : IsParam(pattern[i]) \/ pattern[i] = path[i]

\* matchRoutes: the first matching branch after ranking by score, ties in
\* declaration order.
MatchRoute(path) ==
  LET hits == {i \in DOMAIN RouteBranches : PatternMatches(RouteBranches[i].pattern, path)}
  IN IF hits = {} THEN NoMatch
     ELSE RouteBranches[CHOOSE i \in hits : \A j \in hits :
            \/ Score(RouteBranches[i]) > Score(RouteBranches[j])
            \/ Score(RouteBranches[i]) = Score(RouteBranches[j]) /\ i <= j]

\* The route's branch runs through the "/" route, whose Component is Layout.
UnderLayout(path) == MatchRoute(path).layout

\* Only the "/" route declares a loader.
HasLoader(path) == MatchRoute(path).layout


\* ------------------------------------------------------------------ state

VARIABLES
  pc,            \* where startApp is
  authToken,     \* authStorage.getAuthToken() finds a token in localStorage
  rootElement,   \* document.getElementById("root") finds an element
  session,       \* the backend accepts the session cookie
  navigateFn,    \* the navigation gateway holds startApp's callback
  clientReady,   \* startApp has constructed its QueryClient
  loaderClient,  \* the queryClient the router's loader closes over
  cache,         \* the QueryClient's query cache, by query key
  location,      \* router state.location
  history,       \* the browser's history entries, the current one last
  nav,           \* router state.navigation and its loader's progress
  errors,        \* router state.errors holds an error for the "/" route
  initialized,   \* router state.initialized
  startWait,     \* the startup prefetches startApp still awaits
  observer,      \* Layout's useQuery observer is subscribed
  mutation,      \* the mutation a page has in flight
  lastEvent,     \* the failed HTTP response handled by the latest step, if any
  clock,         \* time, in units of 30 seconds
  dyn,           \* the posts and comments queries of the query cache
  boundary       \* Layout's ErrorBoundary holds a page's render error

vars ==
  << pc, authToken, rootElement, session, navigateFn, clientReady, loaderClient,
     cache, location, history, nav, errors, initialized, startWait, observer,
     mutation, lastEvent, clock, dyn, boundary >>

Keys == {"currentUser", "forums", "users"}

\* forums and users: staleTime Infinity, gcTime Infinity.
StaticKeys == {"forums", "users"}

EmptyQuery ==
  [status |-> "pending", data |-> FALSE, fetching |-> FALSE, stale |-> FALSE,
   failures |-> 0]

NoNav == [active |-> FALSE, to |-> RootPath, mode |-> "pop", await |-> {}, rejected |-> FALSE]

\* No failed response was handled by the latest step.
NoEvent ==
  [status |-> 0, mutation |-> FALSE, atLogin |-> FALSE, navigated |-> FALSE,
   hadData |-> FALSE, toast |-> FALSE, final |-> FALSE, calls |-> 0, nreq |-> 0,
   logged |-> FALSE]

\* -------------------------------------------------------- time-based cache

\* The resource classes with a time-based cache policy.
Classes == {"posts", "comments"}

\* staleTime and gcTime, in units of 30 seconds: posts 1 minute and 5 minutes,
\* comments 30 seconds and 2 minutes.
PostsStaleTime == 2

PostsGcTime == 10

CommentsStaleTime == 1

CommentsGcTime == 4

\* The query client's default staleTime.
StaleTimeDefault(c) == 0

StaleTime(c) == IF c = "posts" THEN PostsStaleTime ELSE CommentsStaleTime

GcTime(c) == IF c = "posts" THEN PostsGcTime ELSE CommentsGcTime

\* A query that is not in the cache.
NoDynQuery ==
  [data |-> FALSE, updatedAt |-> 0, observers |-> 0, unusedSince |-> 0,
   fetching |-> FALSE, served |-> FALSE]

\* Query.isStaleByTime(staleTime)
IsStaleByTime(q, c, now) == ~q.data \/ now >= q.updatedAt + StaleTime(c)

\* ------------------------------------------------------------ query cache

\* Query.isStaleByTime: no data yet, or data older than staleTime / invalidated.
NeedsFetch(q) == ~q.data \/ q.stale

\* Query.fetch's "fetch" dispatch: a query without data goes back to pending.
StartFetch(q) ==
  [q EXCEPT !.fetching = TRUE,
            !.status = IF q.data THEN q.status ELSE "pending",
            !.failures = 0]

\* A fetch that does not look at the data's freshness.
PrefetchAlways(q) == IF ~q.fetching THEN StartFetch(q) ELSE q

\* queryClient.prefetchQuery: fetch unless the data is fresh; join a fetch
\* that is already under way.
Prefetch(q) == IF NeedsFetch(q) /\ ~q.fetching THEN StartFetch(q) ELSE q

PrefetchAll(c) == [k \in Keys |-> Prefetch(c[k])]

\* The prefetch promises that are not settled when prefetchQuery returns.
Unsettled(c) == {k \in Keys : c[k].fetching}

\* ------------------------------------------------------------------ router

LayoutRendered == pc = "done" /\ initialized /\ UnderLayout(location) /\ ~errors

\* completeNavigation: commit the location, the history entry and the errors.
CompleteNavigation(to, mode, err) ==
  /\ location' = to
  /\ history' = CASE mode = "push" -> Append(history, to)
                  [] mode = "replace" -> [history EXCEPT ![Len(history)] = to]
                  [] OTHER -> history
  /\ errors' = err
  /\ initialized' = TRUE
  /\ nav' = NoNav
  /\ observer' = (observer /\ UnderLayout(to) /\ ~err)

\* shouldRevalidate's default: the "/" loader runs for a new route instance,
\* when its loaderData is missing, and on a navigation to the current URL.
LoaderRuns(to) ==
  /\ HasLoader(to)
  /\ \/ ~UnderLayout(location)
     \/ ~initialized
     \/ errors
     \/ to = location

\* layoutLoader with the queryClient the router closed over: with none, reading
\* queryClient.prefetchQuery throws; otherwise three prefetches, awaited together.
LoaderThrows == loaderClient # "shared"

\* startNavigation(to): run the loader if the route needs it, then complete.
StartNavigation(to, mode, c) ==
  IF LoaderRuns(to)
  THEN IF LoaderThrows
       THEN /\ cache' = c
            /\ nav' = [active |-> TRUE, to |-> to, mode |-> mode, await |-> {}, rejected |-> TRUE]
            /\ UNCHANGED <<location, history, errors, initialized, observer>>
       ELSE /\ cache' = PrefetchAll(c)
            /\ IF Unsettled(PrefetchAll(c)) = {}
               THEN CompleteNavigation(to, mode, FALSE)
               ELSE /\ nav' = [active |-> TRUE, to |-> to, mode |-> mode,
                               await |-> Unsettled(PrefetchAll(c)), rejected |-> FALSE]
                    /\ UNCHANGED <<location, history, errors, initialized, observer>>
  ELSE /\ cache' = c
       /\ CompleteNavigation(to, mode, FALSE)

\* ----------------------------------------------------------------- startApp

Init ==
  /\ pc = "createRouter"
  /\ authToken \in BOOLEAN
  /\ rootElement \in BOOLEAN
  /\ session \in BOOLEAN
  /\ navigateFn = FALSE
  /\ clientReady = FALSE
  /\ loaderClient = "unset"
  /\ cache = [k \in Keys |-> EmptyQuery]
  /\ location \in Paths
  /\ history = <<location>>
  /\ nav = NoNav
  /\ errors = FALSE
  /\ initialized = FALSE
  /\ startWait = {}
  /\ observer = FALSE
  /\ mutation = "idle"
  /\ lastEvent = NoEvent
  /\ clock = 0
  /\ dyn = [c \in Classes |-> NoDynQuery]
  /\ boundary = FALSE

\* A guard that also redirects when the query is in the error state.
LayoutRedirectsOnError(q, subscribed) ==
  IF q.status = "pending" \/ (~subscribed /\ ~q.data) THEN "Loading"
  ELSE IF ~q.data \/ q.status = "error" THEN "Navigate"
  ELSE "Outlet"

\* Layout without its "if (isPending)" branch.
LayoutNoPending(q, subscribed) == IF ~q.data THEN "Navigate" ELSE "Outlet"

\* Layout without its "if (!currentUser)" branch.
LayoutUnguarded(q, subscribed) ==
  IF q.status = "pending" \/ (~subscribed /\ ~q.data) THEN "Loading" ELSE "Outlet"

\* Layout's render from the currentUser query: isPending (also on the first
\* render of a query that will fetch on mount), then the guard, then the page.
Layout(q, subscribed) ==
  LET isPending == q.status = "pending" \/ (~subscribed /\ ~q.data)
      currentUser == q.data
  IN IF isPending THEN "Loading"
     ELSE IF ~currentUser THEN "Navigate"
     ELSE "Outlet"

LayoutView == Layout(cache["currentUser"], observer)

\* <ErrorBoundary resetKey=...><Suspense><Outlet /></Suspense></ErrorBoundary>,
\* between Header and Footer: the page, or the boundary's fallback.
PageArea(page, caught) == IF caught THEN "ErrorFallback" ELSE page

\* A reset key that does not follow the location.
ResetKeyConstant(path) == RootPath

\* resetKey={location.pathname}
ResetKey(path) == path

\* What the React tree shows.
View ==
  IF pc # "done" \/ ~initialized THEN "Blank"
  ELSE IF ~UnderLayout(location) THEN MatchRoute(location).Component
  ELSE IF errors THEN "RouteError"
  ELSE IF LayoutView = "Outlet" THEN PageArea(MatchRoute(location).Component, boundary)
  ELSE LayoutView

\* Code that runs before the event loop takes the next task: a rejected loader
\* promise, startApp's continuation, Layout's effects.
EffectPending == LayoutRendered /\ (~observer \/ LayoutView = "Navigate")

MicrotaskPending ==
  \/ nav.active /\ nav.rejected
  \/ pc = "await" /\ startWait = {}
  \/ EffectPending

\* The event loop is free to take a task: a response, a user's action, a timer.
Idle == pc \in {"await", "done", "failed"} /\ ~MicrotaskPending

\* const router = createRouter(): no queryClient is passed, and none exists
\* yet; createBrowserRouter starts the initial navigation, which calls the
\* matched route's loader.
StartApp_createRouter ==
  /\ pc = "createRouter"
  /\ pc' = "setNavigate"
  /\ loaderClient' = "absent"
  /\ StartNavigation(location, "pop", cache)
  /\ lastEvent' = NoEvent
  /\ UNCHANGED <<authToken, rootElement, session, navigateFn, clientReady,
                 startWait, mutation>>

\* setNavigate((path, opts) => void router.navigate(path, {replace: opts?.replace}))
StartApp_setNavigate ==
  /\ pc = "setNavigate"
  /\ pc' = "newQueryClient"
  /\ navigateFn' = TRUE
  /\ lastEvent' = NoEvent
  /\ UNCHANGED <<authToken, rootElement, session, clientReady, loaderClient, cache,
                 location, history, nav, errors, initialized, startWait, observer,
                 mutation>>

\* const queryClient = new QueryClient({...})
StartApp_newQueryClient ==
  /\ pc = "newQueryClient"
  /\ pc' = "getAuthToken"
  /\ clientReady' = TRUE
  /\ lastEvent' = NoEvent
  /\ UNCHANGED <<authToken, rootElement, session, navigateFn, loaderClient, cache,
                 location, history, nav, errors, initialized, startWait, observer,
                 mutation>>

\* A startup that prefetches without looking at the token.
StartupPrefetchesAlways(token) == Keys

\* const authToken = authStorage.getAuthToken(); if (authToken) {...}
StartupPrefetches(token) == IF token THEN Keys ELSE {}

StartApp_getAuthToken ==
  /\ pc = "getAuthToken"
  /\ pc' = IF StartupPrefetches(authToken) # {} THEN "prefetch" ELSE "render"
  /\ lastEvent' = NoEvent
  /\ UNCHANGED <<authToken, rootElement, session, navigateFn, clientReady, loaderClient,
                 cache, location, history, nav, errors, initialized, startWait,
                 observer, mutation>>

\* await Promise.all([prefetchQuery(currentUser), prefetchQuery(forums),
\* prefetchQuery(users)]): the three requests leave before startApp suspends.
StartApp_prefetch ==
  /\ pc = "prefetch"
  /\ pc' = "await"
  /\ cache' = [k \in Keys |-> IF k \in StartupPrefetches(authToken)
                               THEN Prefetch(cache[k]) ELSE cache[k]]
  /\ startWait' = {k \in StartupPrefetches(authToken) : Prefetch(cache[k]).fetching}
  /\ lastEvent' = NoEvent
  /\ UNCHANGED <<authToken, rootElement, session, navigateFn, clientReady, loaderClient,
                 location, history, nav, errors, initialized, observer, mutation>>

\* queryClient.prefetchQuery(...): the promise resolves whether the request
\* succeeded or failed.
PrefetchRejects(q) == FALSE

\* startApp resumes once every prefetch has settled; the catch block, which
\* logs "Failed to prefetch data", runs only for a rejected promise.
StartApp_resume ==
  /\ pc = "await"
  /\ startWait = {}
  /\ pc' = "render"
  /\ lastEvent' = [NoEvent EXCEPT !.logged =
                     \E k \in StartupPrefetches(authToken) : PrefetchRejects(cache[k])]
  /\ UNCHANGED <<authToken, rootElement, session, navigateFn, clientReady, loaderClient,
                 cache, location, history, nav, errors, initialized, startWait,
                 observer, mutation>>

\* if (!rootElement) throw ...; createRoot(rootElement).render(...)
StartApp_render ==
  /\ pc = "render"
  /\ pc' = IF rootElement THEN "done" ELSE "failed"
  /\ lastEvent' = NoEvent
  /\ UNCHANGED <<authToken, rootElement, session, navigateFn, clientReady, loaderClient,
                 cache, location, history, nav, errors, initialized, startWait,
                 observer, mutation>>

\* ------------------------------------------------------- router, continued

\* The loader's promise rejected: the navigation completes with the error on
\* the "/" route, which has no error boundary of its own.
RouterSettleRejected ==
  /\ pc \in {"await", "done", "failed"}
  /\ nav.active /\ nav.rejected
  /\ CompleteNavigation(nav.to, nav.mode, TRUE)
  /\ lastEvent' = NoEvent
  /\ UNCHANGED <<pc, authToken, rootElement, session, navigateFn, clientReady,
                 loaderClient, cache, startWait, mutation>>

\* A link, a page's navigate() call, the back and forward buttons.
UserNavigate(to, mode) ==
  /\ Idle
  /\ pc = "done"
  /\ mode = "push" => Len(history) < MaxHistory
  /\ StartNavigation(to, mode, cache)
  /\ lastEvent' = NoEvent
  /\ UNCHANGED <<pc, authToken, rootElement, session, navigateFn, clientReady,
                 loaderClient, startWait, mutation>>

\* -------------------------------------------------------------- HTTP client

\* The backend's possible answers to a request that needs the session.
Answers == (IF session THEN {200} ELSE {401}) \cup {500}

\* The query client's default, retry: 3.
QueryRetryDefault == 1 + 2

\* QueryClient defaultOptions: queries.retry and mutations.retry are false.
QueryRetry == 0

MutationRetry == 0

\* The HTTP client's retry attempts (ky's default limit, which the client
\* keeps): a GET that failed with a retryable status is re-sent, one that was
\* answered 401 never is.
KyRetryLimit == 2

\* The re-sends that can precede a request's final answer: a request that
\* ends in a retryable failure has used them all.
Resends(status) == IF status = 500 THEN {KyRetryLimit} ELSE 0..KyRetryLimit

\* afterResponse without the login-page exception.
RedirectsOnAny401(status, path) == status = 401

\* afterResponse: a 401 redirects to /login unless the page is the login page.
RedirectsOn(status, path) == status = 401 /\ path # LoginPath

\* A startApp that never calls setNavigate.
GatewayNeverRegistered == FALSE

\* navigateTo(path, opts): call the registered callback, if there is one.
GatewayNavigates == navigateFn

\* A callback that drops opts.replace.
GatewayModePush(replace) == "push"

\* The registered callback: void router.navigate(path, {replace: opts?.replace}).
GatewayMode(replace) == IF replace THEN "replace" ELSE "push"

\* The request function's promise settles: the query's retry, then its new state.
Settle(q, status) ==
  IF status = 200
  THEN [q EXCEPT !.status = "success", !.data = TRUE, !.stale = FALSE,
                 !.fetching = FALSE, !.failures = 0]
  ELSE IF q.failures < QueryRetry
  THEN [q EXCEPT !.failures = @ + 1]
  ELSE [q EXCEPT !.status = "error", !.fetching = FALSE, !.failures = 0]

\* An onError handler without the "query.state.data !== undefined" test.
ToastAlways(q) == TRUE

\* QueryCache onError: a toast only when the failing query holds data.
ToastOnError(q) == q.data

\* The final answer to query k's request, after the HTTP client's re-sends:
\* the afterResponse hook, then the settled request function.
HttpRespond(k, status, resends) ==
  /\ Idle
  /\ cache[k].fetching
  /\ status \in Answers
  /\ resends \in Resends(status)
  /\ LET q2 == Settle(cache[k], status)
         settled == ~q2.fetching
         redirect == RedirectsOn(status, location) /\ GatewayNavigates
     IN /\ cache' = [cache EXCEPT ![k] = q2]
        /\ startWait' = IF settled THEN startWait \ {k} ELSE startWait
        /\ IF redirect
           THEN CompleteNavigation(LoginPath, GatewayMode(TRUE), FALSE)
           ELSE IF nav.active /\ settled /\ nav.await \ {k} = {}
           THEN CompleteNavigation(nav.to, nav.mode, FALSE)
           ELSE /\ nav' = [nav EXCEPT !.await = IF settled THEN @ \ {k} ELSE @]
                /\ UNCHANGED <<location, history, errors, initialized, observer>>
        /\ lastEvent' =
             IF status = 200 THEN NoEvent
             ELSE [status |-> status, mutation |-> FALSE,
                   atLogin |-> (location = LoginPath), navigated |-> redirect,
                   hadData |-> cache[k].data,
                   toast |-> (settled /\ ToastOnError(cache[k])),
                   final |-> settled, calls |-> cache[k].failures + 1,
                   nreq |-> 1 + resends, logged |-> FALSE]
  /\ UNCHANGED <<pc, authToken, rootElement, session, navigateFn, clientReady,
                 loaderClient, mutation>>

\* A page submits a mutation: the login form on /login, a create form on a
\* protected page.
SubmitMutation ==
  /\ Idle
  /\ mutation = "idle"
  /\ View \in {"LoginPage", "ForumListPage", "ForumCreatePage", "PostListPage",
               "PostCreatePage", "PostViewPage"}
  /\ mutation' = IF View = "LoginPage" THEN "login" ELSE "create"
  /\ lastEvent' = NoEvent
  /\ UNCHANGED <<pc, authToken, rootElement, session, navigateFn, clientReady,
                 loaderClient, cache, location, history, nav, errors, initialized,
                 startWait, observer>>

\* The answer to a mutation's POST (never re-sent): a login is accepted, which
\* opens a session, or refused with 401.
MutationRespond(status) ==
  /\ Idle
  /\ mutation # "idle"
  /\ status \in (IF mutation = "login" THEN {200, 401, 500} ELSE Answers)
  /\ mutation' = "idle"
  /\ session' = IF mutation = "login" /\ status = 200 THEN TRUE ELSE session
  /\ LET redirect == RedirectsOn(status, location) /\ GatewayNavigates
     IN /\ IF redirect
           THEN CompleteNavigation(LoginPath, GatewayMode(TRUE), FALSE)
           ELSE UNCHANGED <<location, history, errors, initialized, nav, observer>>
        /\ lastEvent' =
             IF status = 200 THEN NoEvent
             ELSE [status |-> status, mutation |-> TRUE,
                   atLogin |-> (location = LoginPath), navigated |-> redirect,
                   hadData |-> FALSE, toast |-> FALSE, final |-> TRUE,
                   calls |-> MutationRetry + 1, nreq |-> 1, logged |-> FALSE]
  /\ UNCHANGED <<pc, authToken, rootElement, navigateFn, clientReady, loaderClient,
                 cache, startWait>>

\* ---------------------------------------------------------------- backend

\* The session ends: logout elsewhere, expiry, a restart of the backend.
SessionExpire ==
  /\ Idle
  /\ session
  /\ session' = FALSE
  /\ lastEvent' = NoEvent
  /\ UNCHANGED <<pc, authToken, rootElement, navigateFn, clientReady, loaderClient,
                 cache, location, history, nav, errors, initialized, startWait,
                 observer, mutation>>

\* A session opens for the cookie: the visitor logs in, here or in another tab.
SessionOpen ==
  /\ Idle
  /\ ~session
  /\ session' = TRUE
  /\ lastEvent' = NoEvent
  /\ UNCHANGED <<pc, authToken, rootElement, navigateFn, clientReady, loaderClient,
                 cache, location, history, nav, errors, initialized, startWait,
                 observer, mutation>>

\* ------------------------------------------------------------ cache timers

\* The current user's data outlives its staleTime.
MarkStale ==
  /\ Idle
  /\ cache["currentUser"].data
  /\ ~cache["currentUser"].stale
  /\ cache' = [cache EXCEPT !["currentUser"].stale = TRUE]
  /\ lastEvent' = NoEvent
  /\ UNCHANGED <<pc, authToken, rootElement, session, navigateFn, clientReady,
                 loaderClient, location, history, nav, errors, initialized,
                 startWait, observer, mutation>>

\* The unobserved current-user query is garbage-collected after its gcTime.
GcCurrentUser ==
  /\ Idle
  /\ ~observer
  /\ ~cache["currentUser"].fetching
  /\ cache["currentUser"] # EmptyQuery
  /\ cache' = [cache EXCEPT !["currentUser"] = EmptyQuery]
  /\ lastEvent' = NoEvent
  /\ UNCHANGED <<pc, authToken, rootElement, session, navigateFn, clientReady,
                 loaderClient, location, history, nav, errors, initialized,
                 startWait, observer, mutation>>

\* ------------------------------------------------------------------ Layout

\* useQuery's subscription on mount: fetch when there is no data or it is stale.
LayoutSubscribe ==
  /\ pc = "done"
  /\ LayoutRendered
  /\ ~observer
  /\ observer' = TRUE
  /\ cache' = [cache EXCEPT !["currentUser"] = Prefetch(@)]
  /\ lastEvent' = NoEvent
  /\ UNCHANGED <<pc, authToken, rootElement, session, navigateFn, clientReady,
                 loaderClient, location, history, nav, errors, initialized,
                 startWait, mutation>>

\* <Navigate to="/login" replace />
LayoutGuardRedirect ==
  /\ LayoutRendered
  /\ observer
  /\ LayoutView = "Navigate"
  /\ CompleteNavigation(LoginPath, "replace", FALSE)
  /\ lastEvent' = NoEvent
  /\ UNCHANGED <<pc, authToken, rootElement, session, navigateFn, clientReady,
                 loaderClient, cache, startWait, mutation>>

\* The window regains focus while Layout observes stale data: a background refetch.
WindowFocus ==
  /\ Idle
  /\ observer
  /\ cache["currentUser"].stale
  /\ ~cache["currentUser"].fetching
  /\ cache' = [cache EXCEPT !["currentUser"] = StartFetch(@)]
  /\ lastEvent' = NoEvent
  /\ UNCHANGED <<pc, authToken, rootElement, session, navigateFn, clientReady,
                 loaderClient, location, history, nav, errors, initialized,
                 startWait, observer, mutation>>

\* ----------------------------------------------------------- error boundary

\* The page inside the Outlet throws while rendering: the boundary catches it.
PageThrows ==
  /\ Idle
  /\ LayoutRendered
  /\ observer
  /\ LayoutView = "Outlet"
  /\ ~boundary
  /\ boundary' = TRUE
  /\ lastEvent' = NoEvent
  /\ UNCHANGED <<pc, authToken, rootElement, session, navigateFn, clientReady,
                 loaderClient, cache, location, history, nav, errors, initialized,
                 startWait, observer, mutation, clock, dyn>>

\* The boundary after a step of the application: it keeps its error while
\* Layout stays mounted around the Outlet with the same reset key.
BoundaryKeeps ==
  /\ boundary
  /\ ResetKey(location') = ResetKey(location)
  /\ LayoutRendered'
  /\ LayoutView' = "Outlet"

\* -------------------------------------------- time-based cache, continued

appVars ==
  << pc, authToken, rootElement, session, navigateFn, clientReady, loaderClient,
     cache, location, history, nav, errors, initialized, startWait, observer,
     mutation, lastEvent, boundary >>

\* A page that reads the class's query mounts: the cached result is served,
\* and refetched only when it is missing or stale.
Mount(c) ==
  /\ dyn[c].observers = 0
  /\ dyn' = [dyn EXCEPT ![c].observers = 1, ![c].unusedSince = 0,
                        ![c].fetching = @ \/ IsStaleByTime(dyn[c], c, clock),
                        ![c].served = dyn[c].data /\ ~IsStaleByTime(dyn[c], c, clock)]
  /\ UNCHANGED <<clock, appVars>>

\* The page unmounts: the query is unused from now on and its gc timer starts.
Unmount(c) ==
  /\ dyn[c].observers = 1
  /\ dyn' = [dyn EXCEPT ![c].observers = 0, ![c].unusedSince = clock, ![c].served = FALSE]
  /\ UNCHANGED <<clock, appVars>>

\* The class's request succeeds; an unused query restarts its gc timer.
FetchSuccess(c) ==
  /\ dyn[c].fetching
  /\ dyn' = [dyn EXCEPT ![c].fetching = FALSE, ![c].data = TRUE, ![c].updatedAt = clock,
                        ![c].unusedSince = IF dyn[c].observers = 0 THEN clock ELSE @]
  /\ UNCHANGED <<clock, appVars>>

\* Query.optionalRemove when the gc timer fires: an unused, idle query goes.
GcDue(q, c, now) ==
  q.data /\ q.observers = 0 /\ ~q.fetching /\ now >= q.unusedSince + GcTime(c)

\* 30 seconds pass; the gc timers that are due fire.
Tick ==
  /\ clock < MaxClock
  /\ clock' = clock + 1
  /\ dyn' = [c \in Classes |-> IF GcDue(dyn[c], c, clock + 1) THEN NoDynQuery ELSE dyn[c]]
  /\ UNCHANGED appVars

InitCache ==
  /\ pc = "done"
  /\ authToken = FALSE
  /\ rootElement = TRUE
  /\ session = TRUE
  /\ navigateFn = TRUE
  /\ clientReady = TRUE
  /\ loaderClient = "shared"
  /\ cache = [k \in Keys |-> EmptyQuery]
  /\ location = LoginPath
  /\ history = <<location>>
  /\ nav = NoNav
  /\ errors = FALSE
  /\ initialized = TRUE
  /\ startWait = {}
  /\ observer = FALSE
  /\ mutation = "idle"
  /\ lastEvent = NoEvent
  /\ clock = 0
  /\ dyn = [c \in Classes |-> NoDynQuery]
  /\ boundary = FALSE

NextCache ==
  \/ \E c \in Classes : Mount(c)
  \/ \E c \in Classes : Unmount(c)
  \/ \E c \in Classes : FetchSuccess(c)
  \/ Tick

\* The query cache's time-based policy for posts and comments, on its own.
SpecCache == InitCache /\ [][NextCache]_vars

\* ---------------------------------------------------------- specifications

StartApp ==
  \/ StartApp_createRouter
  \/ StartApp_setNavigate
  \/ StartApp_newQueryClient
  \/ StartApp_getAuthToken
  \/ StartApp_prefetch
  \/ StartApp_resume
  \/ StartApp_render

Environment ==
  \/ \E to \in NavTargets, mode \in {"push", "replace"} : UserNavigate(to, mode)
  \/ \E k \in Keys, status \in {200, 401, 500}, resends \in 0..KyRetryLimit :
       HttpRespond(k, status, resends)
  \/ SessionExpire
  \/ MarkStale
  \/ GcCurrentUser

\* The application as main.tsx starts it.
Next ==
  /\ \/ StartApp
     \/ RouterSettleRejected
     \/ Environment
     \/ SubmitMutation
     \/ \E status \in {200, 401, 500} : MutationRespond(status)
  /\ UNCHANGED <<clock, dyn, boundary>>

Spec == Init /\ [][Next]_vars

\* The router module used as its signature asks, createRouter(queryClient),
\* with the tree rendered: the state right after the initial navigation began.
InitRouter ==
  /\ pc = "done"
  /\ authToken = FALSE
  /\ rootElement = TRUE
  /\ session \in BOOLEAN
  /\ navigateFn = TRUE
  /\ clientReady = TRUE
  /\ loaderClient = "shared"
  /\ location \in Paths
  /\ history = <<location>>
  /\ errors = FALSE
  /\ startWait = {}
  /\ observer = FALSE
  /\ mutation = "idle"
  /\ lastEvent = NoEvent
  /\ clock = 0
  /\ dyn = [c \in Classes |-> NoDynQuery]
  /\ boundary = FALSE
  /\ IF HasLoader(location)
     THEN /\ cache = [k \in Keys |-> StartFetch(EmptyQuery)]
          /\ nav = [active |-> TRUE, to |-> location, mode |-> "pop", await |-> Keys,
                    rejected |-> FALSE]
          /\ initialized = FALSE
     ELSE /\ cache = [k \in Keys |-> EmptyQuery]
          /\ nav = NoNav
          /\ initialized = TRUE

NextRouter ==
  /\ \/ Environment
     \/ SessionOpen
     \/ LayoutSubscribe
     \/ LayoutGuardRedirect
     \/ WindowFocus
  /\ UNCHANGED <<clock, dyn, boundary>>

SpecRouter == InitRouter /\ [][NextRouter]_vars

\* The same, with pages that can throw while rendering.
NextBoundary ==
  \/ /\ \/ Environment
        \/ SessionOpen
        \/ LayoutSubscribe
        \/ LayoutGuardRedirect
        \/ WindowFocus
     /\ boundary' = BoundaryKeeps
     /\ UNCHANGED <<clock, dyn>>
  \/ PageThrows

SpecBoundary == InitRouter /\ [][NextBoundary]_vars

\* ------------------------------------------------------------------ claims

ProtectedPages ==
  {"ForumListPage", "ForumCreatePage", "PostListPage", "PostCreatePage", "PostViewPage"}

\* C1: a protected page (the Outlet inside Layout) is on screen only while the
\* currentUser query holds a user; without that data the screen never shows one.
C1_ProtectedPageNeedsUser ==
  View \in ProtectedPages =>
    /\ UnderLayout(location)
    /\ cache["currentUser"].data
    /\ cache["currentUser"].status # "pending"

C1_Witness ==
  /\ View \in ProtectedPages
  /\ observer
  /\ cache["currentUser"].data

\* C2: once nothing is in flight, a visitor without a session and without a
\* cached user is on /login, whatever URL the visit began at.
C2_UnauthenticatedEndsOnLogin ==
  ( /\ pc = "done"
    /\ Idle
    /\ ~nav.active
    /\ mutation = "idle"
    /\ \A k \in Keys : ~cache[k].fetching
    /\ ~session
    /\ ~cache["currentUser"].data )
    => location = LoginPath

\* C3: /login, and only /login, lies outside the "/" route: it matches no
\* Layout and no loader, never waits for a loader, and shows LoginPage whoever
\* visits; every other URL matches a child of the Layout route.
C3_LoginIsTheOnlyPublicRoute ==
  /\ \A p \in Paths : UnderLayout(p) <=> p # LoginPath
  /\ \A p \in Paths : HasLoader(p) <=> p # LoginPath
  /\ nav.active => nav.to # LoginPath
  /\ (pc = "done" /\ initialized /\ location = LoginPath) => View = "LoginPage"
  /\ View = "LoginPage" => location = LoginPath

C3_Witness ==
  /\ View = "LoginPage"
  /\ session
  /\ cache["currentUser"].data

C7_CacheClearedOn401 ==
  (lastEvent.status = 401 /\ lastEvent.navigated) => \A k \in Keys : ~cache[k].data

\* C8: once the forums (users) list is in the cache, no step sends a request
\* for it again, and no step drops it.
C8_StaticDataFetchedOnce ==
  [][\A k \in StaticKeys :
       cache[k].data => (cache'[k].data /\ ~cache[k].fetching /\ ~cache'[k].fetching)]_vars

\* The loader ran again with the static lists cached, and refetches only the
\* current user.
C8_Witness ==
  /\ nav.active
  /\ nav.await = {"currentUser"}
  /\ \A k \in StaticKeys : cache[k].data /\ ~cache[k].fetching

\* C10: by the time startApp renders, the requests it has sent are those it
\* would have sent whatever localStorage holds.
C10_LocalStorageIrrelevant ==
  pc = "render" =>
    \A token \in BOOLEAN : {k \in Keys : cache[k] # EmptyQuery} = StartupPrefetches(token)

\* C9: a cached result of either class is refetched on mount only when it is
\* as old as its staleTime (posts 1 minute, comments 30 seconds); it leaves the
\* cache only when it has been unused for its gcTime (posts 5 minutes, comments
\* 2 minutes) and never stays longer; and it is stale before it can be collected.
C9_TimeBasedCache ==
  [][\A c \in Classes :
       /\ StaleTime(c) < GcTime(c)
       /\ (dyn[c].data /\ ~dyn[c].fetching /\ dyn'[c].fetching)
            => clock >= dyn[c].updatedAt + (IF c = "posts" THEN 2 ELSE 1)
       /\ (dyn[c].data /\ ~dyn'[c].data)
            => /\ dyn[c].observers = 0
               /\ clock' = dyn[c].unusedSince + (IF c = "posts" THEN 10 ELSE 4)
       /\ (dyn[c].data /\ dyn[c].observers = 0 /\ ~dyn[c].fetching)
            => clock < dyn[c].unusedSince + (IF c = "posts" THEN 10 ELSE 4)
       /\ (dyn[c].data /\ dyn[c].observers = 0 /\ ~dyn[c].fetching)
            => IsStaleByTime(dyn[c], c, dyn[c].unusedSince + GcTime(c))]_vars

\* A posts result one step old is served on mount without a request.
C9_Witness ==
  /\ dyn["posts"].served
  /\ ~dyn["posts"].fetching
  /\ clock = dyn["posts"].updatedAt + 1
  /\ clock > 1

\* C11: a query's failed fetch raises the global toast exactly when the query
\* held data as it failed (a background refetch); a failure with no data in
\* the cache raises none, and a failed refetch reaches the handler once.
C11_ToastIffData ==
  [][(lastEvent'.status # 0 /\ ~lastEvent'.mutation) =>
       \E k \in Keys :
         /\ cache[k].fetching /\ ~cache'[k].fetching
         /\ cache'[k].status = "error"
         /\ lastEvent'.toast <=> cache[k].data
         /\ lastEvent'.toast <=> cache'[k].data
         /\ lastEvent'.calls = 1]_vars

\* A background refetch of cached data failed, on a page that stays: one toast.
C11_Witness ==
  /\ lastEvent.status = 500
  /\ ~lastEvent.mutation
  /\ lastEvent.toast
  /\ ~lastEvent.navigated
  /\ cache["currentUser"].data
  /\ cache["currentUser"].status = "error"

\* C12: every URL resolves to the page the route table documents: / to the
\* forum list, /forums/new to the forum form (not the post list with slug
\* "new"), /forums/<slug> to the post list, /forums/<slug>/new to the post form
\* (not the post view with postNumber "new"), /forums/<slug>/<postNumber> to the
\* post view; and a page on screen is the page documented for the location.
C12_RouteTable ==
  /\ MatchRoute(<<"login">>).Component = "LoginPage"
  /\ MatchRoute(<<>>).Component = "ForumListPage"
  /\ MatchRoute(<<"forums", "new">>).Component = "ForumCreatePage"
  /\ MatchRoute(<<"forums", "s">>).Component = "PostListPage"
  /\ MatchRoute(<<"forums", "s", "new">>).Component = "PostCreatePage"
  /\ MatchRoute(<<"forums", "s", "1">>).Component = "PostViewPage"
  /\ View = "ForumListPage" => location = <<>>
  /\ View = "ForumCreatePage" => location = <<"forums", "new">>
  /\ View = "PostListPage" => location = <<"forums", "s">>
  /\ View = "PostCreatePage" => location = <<"forums", "s", "new">>
  /\ View = "PostViewPage" => location = <<"forums", "s", "1">>

\* /forums/new is on screen, showing the forum form.
C12_Witness ==
  /\ location = <<"forums", "new">>
  /\ View = "ForumCreatePage"
  /\ cache["currentUser"].data

\* C13: while the currentUser query is pending Layout shows the loading
\* indicator and nothing else; the guard's redirect to /login happens only
\* once the query has settled, in error and without a user.
C13_NoPrematureRedirect ==
  /\ [](( LayoutRendered /\ cache["currentUser"].status = "pending") => View = "Loading")
  /\ [][LayoutGuardRedirect =>
          /\ cache["currentUser"].status = "error"
          /\ ~cache["currentUser"].fetching
          /\ ~cache["currentUser"].data]_vars

\* A visitor with a session waits on the loading indicator while the profile
\* request is in flight.
C13_Witness ==
  /\ View = "Loading"
  /\ observer
  /\ session
  /\ cache["currentUser"].status = "pending"
  /\ cache["currentUser"].fetching
  /\ location # LoginPath

\* C14: startApp starts the currentUser, forums and users requests before it
\* renders exactly when localStorage holds a token: with a token all three
\* leave together before startApp suspends, without one startApp goes straight
\* to rendering and the cache is still empty when it renders.
C14_PrefetchIffToken ==
  [][/\ pc = "getAuthToken" => pc' = (IF authToken THEN "prefetch" ELSE "render")
     /\ pc = "prefetch" =>
          /\ authToken
          /\ pc' = "await"
          /\ \A k \in Keys : ~cache[k].fetching /\ cache'[k].fetching
     /\ (~authToken /\ pc \notin {"done", "failed"}) =>
          \A k \in Keys : cache'[k] = EmptyQuery]_vars

\* With a token, the three startup requests are in flight while startApp waits.
C14_Witness ==
  /\ pc = "await"
  /\ authToken
  /\ startWait = Keys
  /\ \A k \in Keys : cache[k].fetching

\* C15: startApp reaches its render only once every startup prefetch has
\* settled, goes on whatever their outcome, renders exactly when the root
\* element exists, and logs a startup prefetch that failed.
C15_StartupResilient ==
  [][/\ (pc' = "render" /\ pc # "render") =>
          /\ \A k \in Keys : ~cache[k].fetching
          /\ startWait = {}
     /\ (pc = "await" /\ \A k \in Keys : ~cache[k].fetching) => ENABLED StartApp_resume
     /\ pc = "render" => ENABLED StartApp_render
     /\ pc = "render" => pc' = (IF rootElement THEN "done" ELSE "failed")
     /\ (pc = "await" /\ pc' = "render" /\ \E k \in Keys : cache[k].status = "error")
          => lastEvent'.logged]_vars

\* C15 without the log: what startApp does keep of it. A failed prefetch
\* never reaches the catch block, so nothing is logged.
C15_StartupSurvivesFailure ==
  [][/\ (pc' = "render" /\ pc # "render") =>
          /\ \A k \in Keys : ~cache[k].fetching
          /\ startWait = {}
     /\ (pc = "await" /\ \A k \in Keys : ~cache[k].fetching) => ENABLED StartApp_resume
     /\ pc = "render" => ENABLED StartApp_render
     /\ pc = "render" => pc' = (IF rootElement THEN "done" ELSE "failed")
     /\ ~lastEvent'.logged]_vars

\* C16: the navigation gateway holds startApp's callback whenever a request
\* is in flight and whenever a failed response, a 401 among them, is handled.
C16_GatewayBeforeResponses ==
  /\ (\E k \in Keys : cache[k].fetching) => GatewayNavigates
  /\ mutation # "idle" => GatewayNavigates
  /\ lastEvent.status # 0 => GatewayNavigates
  /\ pc \notin {"createRouter", "setNavigate"} => GatewayNavigates

\* A 401 is handled while startApp still awaits its prefetches, and redirects.
C16_Witness ==
  /\ pc = "await"
  /\ lastEvent.status = 401
  /\ lastEvent.navigated
  /\ navigateFn

\* C17: once the router exists its loader holds the QueryClient the tree is
\* given, so the loader never throws for want of one and no navigation ends
\* with the loader's error on the "/" route.
C17_SharedQueryClient ==
  /\ pc # "createRouter" => loaderClient = "shared"
  /\ ~(nav.active /\ nav.rejected)
  /\ ~errors

\* C18: the loader runs for every navigation to a URL under Layout and for no
\* other; its pending navigation waits for exactly the prefetches still in
\* flight, and it never fails the navigation: no loader error, no error on the
\* "/" route, and a stale current user is refetched by each such navigation.
C18_LoaderContract ==
  /\ []( /\ ~(nav.active /\ nav.rejected)
         /\ ~errors
         /\ nav.active =>
              /\ UnderLayout(nav.to)
              /\ nav.await # {}
              /\ \A k \in nav.await : cache[k].fetching )
  /\ [][\A to \in NavTargets, mode \in {"push", "replace"} :
          UserNavigate(to, mode) =>
            /\ ~UnderLayout(to) => (cache' = cache /\ location' = to)
            /\ ( /\ UnderLayout(to)
                 /\ cache["currentUser"].stale
                 /\ ~cache["currentUser"].fetching ) => cache'["currentUser"].fetching]_vars

C20_RedirectOnDataOnly ==
  /\ [](( LayoutRendered /\ observer /\ cache["currentUser"].data) => LayoutView = "Outlet")
  /\ [][( /\ lastEvent'.status # 0
          /\ cache["currentUser"].fetching /\ ~cache'["currentUser"].fetching
          /\ cache["currentUser"].data ) =>
            /\ cache'["currentUser"].status = "error"
            /\ cache'["currentUser"].data
            /\ lastEvent'.toast
            /\ lastEvent'.calls = 1
            /\ Layout(cache'["currentUser"], TRUE) = "Outlet"
            /\ location' # location => (lastEvent'.navigated \/ nav.active)
            /\ lastEvent'.navigated => lastEvent'.status = 401]_vars

\* The refetch of the cached user failed with a 500: toast, page still shown.
C20_Witness ==
  /\ lastEvent.status = 500
  /\ lastEvent.toast
  /\ cache["currentUser"].status = "error"
  /\ cache["currentUser"].data
  /\ observer
  /\ View \in ProtectedPages

\* C21: a redirect to /login, by the Layout guard or by the 401 handler,
\* leaves no navigation pending; and on /login with none pending, only the
\* visitor's own navigation moves the router: the guard does not run, no
\* response calls the gateway, and location and history stay as they are.
C21_NoRedirectLoop ==
  [][/\ ( /\ location # LoginPath
          /\ location' = LoginPath
          /\ ~\E to \in NavTargets, mode \in {"push", "replace"} : UserNavigate(to, mode) )
          => ~nav'.active
     /\ ( /\ location = LoginPath
          /\ ~nav.active
          /\ ~\E to \in NavTargets, mode \in {"push", "replace"} : UserNavigate(to, mode) )
          => /\ location' = LoginPath
             /\ history' = history
             /\ ~nav'.active
             /\ ~lastEvent'.navigated
             /\ ~LayoutGuardRedirect]_vars

\* On /login after the redirect, a request that was still in flight is
\* answered 401 and nothing moves.
C21_Witness ==
  /\ location = LoginPath
  /\ history = <<LoginPath>>
  /\ ~session
  /\ lastEvent.status = 401
  /\ lastEvent.atLogin
  /\ ~lastEvent.navigated
  /\ cache["currentUser"].status = "error"
  /\ ~cache["currentUser"].data

====
